---- MODULE Spec2Model ----
(***************************************************************************)
(* A model of dumper/mysql.go: the Client that dumps a MySQL database as   *)
(* an SQL script.  One call of WriteTables is followed step by step; the   *)
(* database is the environment, so every query may succeed or fail and     *)
(* the listing, the row counts and the row streams are chosen by it.       *)
(*                                                                         *)
(* The sink is the sequence of the fragments written to the io.Writer, one *)
(* element per Fprintf/Fprintln call; dbLog is the sequence of statements  *)
(* sent to the database.  Errors of sink writes are dropped by the code    *)
(* and are not modelled.                                                   *)
(***************************************************************************)
EXTENDS Integers, Sequences, FiniteSets, TLC

\* ------------------------------------------------------------- bounds
\* Longest listing SHOW FULL TABLES returns.
MaxTables == 2
\* Longest row stream of one table's data cursor.
MaxRows == 3
\* Largest result of one table's row count query.
MaxCount == 1
\* Largest ExtendedInsertRows of a configuration.
MaxBatch == 2
\* Longest cell a single value is rendered from.
MaxCell == 3

\* ---------------------------------------------------------- constants
OperationIgnore == "ignore"
OperationNoData == "nodata"

nil == "nil"

\* The errors the database collaborator can hand back, one per failure point.
ErrShowFullTables == "ErrShowFullTables"
ErrScanTables == "ErrScanTables"
ErrShowCreate == "ErrShowCreate"
ErrCount == "ErrCount"
ErrProbe == "ErrProbe"
ErrProbeColumns == "ErrProbeColumns"
ErrSelect == "ErrSelect"
ErrColumns == "ErrColumns"
ErrRowScan == "ErrRowScan"
ErrLock == "ErrLock"
ErrFlush == "ErrFlush"
ErrUnlock == "ErrUnlock"

\* ----------------------------------------------- the database's content
\* The objects of the database: two base tables (one with an upper-case letter
\* in its name) and a view.
DbObjects ==
  { [name |-> "ta", type |-> "BASE TABLE"],
    [name |-> "Tb", type |-> "BASE TABLE"],
    [name |-> "vw", type |-> "VIEW"] }

\* strings.ToLower on the names of the model.
ToLower(s) ==
  CASE s = "Tb" -> "tb"
    [] s = "Name" -> "name"
    [] OTHER -> s

\* The keys a configuration's maps may hold: the lower-cased base table names.
LowerTableNames == { ToLower(o.name) : o \in { b \in DbObjects : b.type = "BASE TABLE" } }

\* The native column order of a table.
DbColumns(t) == IF t = "ta" THEN <<"id", "Name">> ELSE <<"id">>

\* A cell as Scan leaves it: a nil *sql.RawBytes, or the cell's bytes.
NullCell == [null |-> TRUE, bytes |-> <<>>]
Bytes(b) == [null |-> FALSE, bytes |-> b]

\* Row i of table t, as the cursor hands it over: one cell per column.  The
\* first cell is the decimal digit of i; the second is NULL on even rows and
\* the bytes o ' k \ on odd rows.
DbRow(t, i) ==
  IF t = "ta"
    THEN << Bytes(<<48 + i>>), IF i % 2 = 0 THEN NullCell ELSE Bytes(<<111, 39, 107, 92>>) >>
    ELSE << Bytes(<<48 + i>>) >>

\* Every listing the enumeration can return: sequences of distinct objects.
Listings ==
  UNION { { s \in [1..n -> DbObjects] : \A i, j \in 1..n : i # j => s[i].name # s[j].name }
          : n \in 0..MaxTables }

\* ------------------------------------------------------------ state
VARIABLES
  FilterMap,           \* Client.FilterMap: lower-case table name -> policy
  UseTableLock,        \* Client.UseTableLock
  ExtendedInsertRows,  \* Client.ExtendedInsertRows
  WhereMap,            \* Client.WhereMap: lower-case table name -> expression
  SelectMap,           \* Client.SelectMap: table -> column -> expression
  sink,                \* what was written to w, one element per write
  dbLog,               \* the statements sent to d.DB, in order
  pc,                  \* the position of the call of WriteTables
  listErr,             \* the error of the SHOW FULL TABLES query (nil: none)
  enumerated,          \* the rows of the SHOW FULL TABLES cursor
  tables,              \* GetTables' first result / WriteTables' tables
  getErr,              \* GetTables' second result
  idx,                 \* WriteTables' loop index (1-based)
  table,               \* WriteTable's table
  wtStart,             \* Len(sink) when the current WriteTable was entered
  wtDbStart,           \* Len(dbLog) when the current WriteTable was entered
  skipData,            \* WriteTable's skipData
  createErr,           \* what WriteCreateTable returned to WriteTable
  cnt,                 \* WriteTableHeader's count
  hdrErr,              \* WriteTableHeader's error
  dataErr,             \* what WriteTableData returned to WriteTable
  dataEnd,             \* Len(sink) when WriteTableData returned (0: not yet)
  stream,              \* the number of rows of the data cursor
  nread,               \* the rows of the data cursor scanned so far
  data,                \* WriteTableData's accumulator
  wtRet,               \* what WriteTable returned
  wtsRet,              \* what WriteTables returned
  firstFail,           \* the first failure of a table's dump: [idx, err]
  dumped,              \* the tables WriteTables has handed to WriteTable, in order
  cursors,             \* the *sql.Rows that are open
  adminFailed,         \* the LOCK / FLUSH / UNLOCK statements that failed for table
  faults,              \* whether the database fails administrative statements
  cell,                \* the scanned cell RenderValue is applied to
  literal              \* the value RenderValue made of cell

vars ==
  << FilterMap, UseTableLock, ExtendedInsertRows, WhereMap, SelectMap, sink, dbLog, pc, listErr,
     enumerated, tables, getErr, idx, table, wtStart, wtDbStart, skipData, createErr, cnt,
     hdrErr, dataErr, dataEnd, stream, nread, data, wtRet, wtsRet, firstFail, dumped,
     cursors, adminFailed, faults, cell, literal >>

config == << FilterMap, UseTableLock, ExtendedInsertRows, WhereMap, SelectMap, faults >>

\* The cell of a single rendering and its value.
rendering == << cell, literal >>

\* What GetTables saw and returned.
listing == << listErr, enumerated, tables, getErr >>

\* WriteTable's and WriteTableData's locals.
frame == << skipData, createErr, cnt, hdrErr, dataErr, dataEnd, stream, nread, data >>

NoFail == [idx |-> 0, err |-> nil]

\* A Go map lookup: the zero value "" for a missing key.
Lookup(m, k) == IF k \in DOMAIN m THEN m[k] ELSE ""

\* Every map from some lower-case table names to a policy.
FilterMaps ==
  UNION { [ks -> {OperationIgnore, OperationNoData}] : ks \in SUBSET LowerTableNames }

\* The row filters and the column substitutions of a configuration.
WhereMaps == { <<>>, [k \in {"ta", "tb"} |-> IF k = "ta" THEN "x > 0" ELSE "id < 9"] }

SelectMaps == { <<>>, [k \in {"ta"} |-> [c \in {"name"} |-> "NOW()"]] }

\* The query customisations of a dump: none, or the row filters and the column
\* substitution together.
QueryMaps ==
  { q \in [where : WhereMaps, select : SelectMaps] :
      (q.where = <<>>) <=> (q.select = <<>>) }

\* WriteTables is about to be called: nothing was written, sent or opened.
Idle ==
  /\ sink = <<>>
  /\ dbLog = <<>>
  /\ listErr = nil
  /\ enumerated = <<>>
  /\ tables = <<>>
  /\ getErr = nil
  /\ idx = 0
  /\ table = ""
  /\ wtStart = 0
  /\ wtDbStart = 0
  /\ skipData = FALSE
  /\ createErr = nil
  /\ cnt = 0
  /\ hdrErr = nil
  /\ dataErr = nil
  /\ dataEnd = 0
  /\ stream = 0
  /\ nread = 0
  /\ data = <<>>
  /\ wtRet = nil
  /\ wtsRet = nil
  /\ firstFail = NoFail
  /\ dumped = <<>>
  /\ cursors = {}
  /\ adminFailed = {}

Init ==
  /\ FilterMap \in FilterMaps
  /\ UseTableLock \in BOOLEAN
  /\ ExtendedInsertRows \in 0..MaxBatch
  /\ \E q \in QueryMaps :
       /\ WhereMap = q.where
       /\ SelectMap = q.select
  /\ faults = FALSE
  /\ pc = "WriteTables"
  /\ cell = NullCell
  /\ literal = <<>>
  /\ Idle

\* ------------------------------------------------- the sink's fragments
StructureComment(t) == [k |-> "StructureComment", t |-> t]
DropTable(t) == [k |-> "DropTable", t |-> t]
Ddl(t) == [k |-> "DDL", t |-> t]
DataHeader(t) == [k |-> "DataHeader", t |-> t]
RowCount(n) == [k |-> "RowCount", n |-> n]
LockWrite(t) == [k |-> "LockWrite", t |-> t]
Insert(t, tuples) == [k |-> "Insert", t |-> t, tuples |-> tuples]
BlankLine == [k |-> "Blank"]
UnlockMarker == [k |-> "Unlock"]

\* ------------------------------------------------- the statements sent
LockTableReading(t) == [op |-> "LOCK TABLES READ", t |-> t]
FlushTable(t) == [op |-> "FLUSH TABLES", t |-> t]
UnlockTables == [op |-> "UNLOCK TABLES"]
ShowFullTables == [op |-> "SHOW FULL TABLES"]
ShowCreateTable(t) == [op |-> "SHOW CREATE TABLE", t |-> t]
ProbeQuery(t) == [op |-> "SELECT * LIMIT 1", t |-> t]

\* ------------------------------------------------------ pure functions
\* BaseTables without the test of the type: every row's name.
BaseTablesAll(rows) == [i \in DOMAIN rows |-> rows[i].name]

\* The names of the base tables among rows, in the rows' order (the loop of
\* GetTables).
RECURSIVE BaseTables(_)
BaseTables(rows) ==
  IF rows = <<>> THEN <<>>
  ELSE LET rest == BaseTables(SubSeq(rows, 1, Len(rows) - 1))
           last == rows[Len(rows)]
       IN IF last.type = "BASE TABLE" THEN Append(rest, last.name) ELSE rest

\* GetTables' results: queryErr is the error of the query (nil: none), rows the
\* cursor's rows and badRow the row whose Scan fails (0: none).
GetTablesResult(queryErr, rows, badRow) ==
  IF queryErr # nil THEN [tables |-> <<>>, err |-> queryErr]
  ELSE IF badRow # 0
    THEN [tables |-> BaseTables(SubSeq(rows, 1, badRow - 1)), err |-> ErrScanTables]
    ELSE [tables |-> BaseTables(rows), err |-> nil]

\* FilterPolicy looking the name up as it is spelled: d.FilterMap[table].
FilterPolicyCaseSensitive(t) == Lookup(FilterMap, t)

\* d.FilterMap[strings.ToLower(table)]
FilterPolicy(t) == Lookup(FilterMap, ToLower(t))

\* ColumnForSelect looking the column up as it is spelled:
\* d.SelectMap[strings.ToLower(table)][column].
ColumnForSelectCaseSensitive(t, column) ==
  LET forTable == IF ToLower(t) \in DOMAIN SelectMap THEN SelectMap[ToLower(t)] ELSE <<>>
  IN IF column \in DOMAIN forTable
       THEN [expr |-> forTable[column], as |-> column]
       ELSE [quoted |-> column]

\* One entry of GetColumnsForSelect's result.
ColumnForSelect(t, column) ==
  LET forTable == IF ToLower(t) \in DOMAIN SelectMap THEN SelectMap[ToLower(t)] ELSE <<>>
  IN IF ToLower(column) \in DOMAIN forTable
       THEN [expr |-> forTable[ToLower(column)], as |-> column]
       ELSE [quoted |-> column]

\* GetColumnsForSelect's list for the columns the probe query reports.
GetColumnsForSelect(t, columns) ==
  [i \in 1..Len(columns) |-> ColumnForSelect(t, columns[i])]

\* The WHERE clause both queries append: none, or the table's expression.
WhereClause(t) ==
  IF ToLower(t) \in DOMAIN WhereMap THEN <<WhereMap[ToLower(t)]>> ELSE <<>>

\* GetSelectQueryForTable's query, given the column list.
GetSelectQueryForTable(t, cols) ==
  [op |-> "SELECT", cols |-> cols, t |-> t, where |-> WhereClause(t)]

\* RowCountQuery looking the table up as it is spelled: d.WhereMap[table].
RowCountQueryCaseSensitive(t) ==
  [op |-> "SELECT COUNT(*)", t |-> t,
   where |-> IF t \in DOMAIN WhereMap THEN <<WhereMap[t]>> ELSE <<>>]

\* The query of GetRowCountForTable.
RowCountQuery(t) == [op |-> "SELECT COUNT(*)", t |-> t, where |-> WhereClause(t)]

\* escape: every ' \ NUL LF CR and 0x1A byte becomes a backslash and a
\* printable byte (' \ 0 n r Z).
EscapeByte(b) ==
  CASE b = 39 -> <<92, 39>>
    [] b = 92 -> <<92, 92>>
    [] b = 0 -> <<92, 48>>
    [] b = 10 -> <<92, 110>>
    [] b = 13 -> <<92, 114>>
    [] b = 26 -> <<92, 90>>
    [] OTHER -> <<b>>

RECURSIVE escape(_)
escape(bytes) ==
  IF bytes = <<>> THEN <<>> ELSE EscapeByte(Head(bytes)) \o escape(Tail(bytes))

\* RenderValue without the call of escape: the raw bytes between the quotes.
RenderValueRaw(col) ==
  IF col.null THEN <<78, 85, 76, 76>> ELSE <<39>> \o col.bytes \o <<39>>

\* One value of a tuple: NULL, or the escaped bytes between single quotes.
RenderValue(col) ==
  IF col.null THEN <<78, 85, 76, 76>> ELSE <<39>> \o escape(col.bytes) \o <<39>>

\* The tuple "( v1, v2, ... )" of a scanned row: its values in column order.
RenderTuple(values) == [i \in 1..Len(values) |-> RenderValue(values[i])]

\* FlushNow with > for >=.
FlushNowOffByOne(acc) ==
  /\ ExtendedInsertRows # 0
  /\ Len(acc) > ExtendedInsertRows

\* FlushNow without the test for ExtendedInsertRows == 0.
FlushNowNoZeroTest(acc) == Len(acc) >= ExtendedInsertRows

\* Whether the accumulator is flushed after a row was appended to it.
FlushNow(acc) ==
  /\ ExtendedInsertRows # 0
  /\ Len(acc) >= ExtendedInsertRows

\* Whether the accumulator is flushed when the cursor is exhausted.
FlushAtEnd(acc) == Len(acc) > 0

\* HasRows with >= for >.
HasRowsOrNone(count) == count >= 0

\* Whether WriteTable goes on to the table's rows after the header.
HasRows(count) == count > 0

\* ------------------------------------------------------------ actions
\* Records the first failure of a table's dump.
NoteFail(err) ==
  firstFail' = IF firstFail.idx = 0 /\ err # nil THEN [idx |-> idx, err |-> err]
               ELSE firstFail

\* WriteTable returns r to WriteTables.
Return(r) ==
  /\ wtRet' = r
  /\ pc' = "WriteTablesErr"

\* WriteTables calls GetTables, which runs SHOW FULL TABLES and scans its rows;
\* the cursor it opens is closed (defer) when it returns.
GetTables ==
  /\ pc = "WriteTables"
  /\ \E queryErr \in {nil, ErrShowFullTables}, rows \in Listings :
       \E badRow \in 0..Len(rows) :
         LET r == GetTablesResult(queryErr, rows, badRow)
         IN /\ queryErr # nil => rows = <<>> /\ badRow = 0
            /\ listErr' = queryErr
            /\ enumerated' = rows
            /\ tables' = r.tables
            /\ getErr' = r.err
  /\ dbLog' = Append(dbLog, ShowFullTables)
  /\ pc' = "GetTablesErr"
  /\ UNCHANGED << config, rendering, sink, idx, table, wtStart, wtDbStart, frame, wtRet, wtsRet,
                  firstFail, dumped, cursors, adminFailed >>

\* AfterGetTables without the error check.
AfterGetTablesUnchecked(err) ==
  /\ wtsRet' = wtsRet
  /\ pc' = "Loop"
  /\ idx' = 1

\* WriteTables after GetTables returned err: if err != nil { return err },
\* else the loop starts.
AfterGetTables(err) ==
  IF err # nil
    THEN /\ wtsRet' = err
         /\ pc' = "done"
         /\ idx' = idx
    ELSE /\ wtsRet' = wtsRet
         /\ pc' = "Loop"
         /\ idx' = 1

WriteTablesStart ==
  /\ pc = "GetTablesErr"
  /\ AfterGetTables(getErr)
  /\ UNCHANGED << config, rendering, sink, dbLog, listing, table, wtStart,
                  wtDbStart, frame, wtRet, firstFail, dumped, cursors, adminFailed >>

\* WriteTables' loop: the next table is handed to WriteTable, or the list is
\* exhausted and WriteTables returns nil.
WriteTablesLoop ==
  /\ pc = "Loop"
  /\ IF idx > Len(tables)
       THEN /\ wtsRet' = nil
            /\ pc' = "done"
            /\ UNCHANGED << table, wtStart, wtDbStart, frame, wtRet, dumped, adminFailed >>
       ELSE /\ table' = tables[idx]
            /\ dumped' = Append(dumped, tables[idx])
            /\ adminFailed' = {}
            /\ wtStart' = Len(sink)
            /\ wtDbStart' = Len(dbLog)
            /\ skipData' = FALSE
            /\ createErr' = nil
            /\ cnt' = 0
            /\ hdrErr' = nil
            /\ dataErr' = nil
            /\ dataEnd' = 0
            /\ stream' = 0
            /\ nread' = 0
            /\ data' = <<>>
            /\ wtRet' = nil
            /\ pc' = "WriteTable"
            /\ wtsRet' = wtsRet
  /\ UNCHANGED << config, rendering, sink, dbLog, listing, idx, firstFail, cursors >>

\* WriteTables: if err := d.WriteTable(w, table); err != nil { return err }.
WriteTablesErr ==
  /\ pc = "WriteTablesErr"
  /\ IF wtRet # nil
       THEN /\ wtsRet' = wtRet
            /\ pc' = "done"
            /\ idx' = idx
       ELSE /\ wtsRet' = wtsRet
            /\ pc' = "Loop"
            /\ idx' = idx + 1
  /\ UNCHANGED << config, rendering, sink, dbLog, listing, table, wtStart,
                  wtDbStart, frame, wtRet, firstFail, dumped, cursors, adminFailed >>

\* The results an administrative statement can have: nil, or err when the
\* database fails such statements.
AdminResults(err) == IF faults THEN {nil, err} ELSE {nil}

\* AfterLock returning the error of LOCK TABLES or FLUSH TABLES.
AfterLockChecked(lockErr, flushErr) ==
  IF lockErr # nil THEN Return(lockErr)
  ELSE IF flushErr # nil THEN Return(flushErr)
  ELSE /\ pc' = "WriteCreateTable"
       /\ wtRet' = wtRet

\* WriteTable after d.LockTableReading and d.FlushTable: their results are
\* dropped and the structure is written next.
AfterLock(lockErr, flushErr) ==
  /\ pc' = "WriteCreateTable"
  /\ wtRet' = wtRet

\* WriteTable's head: the policy check, skipData and the read lock and flush.
WriteTablePolicy ==
  /\ pc = "WriteTable"
  /\ IF FilterPolicy(table) = OperationIgnore
       THEN /\ Return(nil)
            /\ UNCHANGED << skipData, dbLog, adminFailed >>
       ELSE /\ skipData' = (FilterPolicy(table) = OperationNoData)
            /\ IF ~skipData' /\ UseTableLock
                 THEN \E lockErr \in AdminResults(ErrLock), flushErr \in AdminResults(ErrFlush) :
                        /\ dbLog' = dbLog \o << LockTableReading(table), FlushTable(table) >>
                        /\ adminFailed' = {lockErr, flushErr} \ {nil}
                        /\ AfterLock(lockErr, flushErr)
                 ELSE /\ dbLog' = dbLog
                      /\ adminFailed' = adminFailed
                      /\ AfterLock(nil, nil)
  /\ UNCHANGED << config, rendering, sink, listing, idx, table, wtStart, wtDbStart,
                  createErr, cnt, hdrErr, dataErr, dataEnd, stream, nread, data, wtsRet,
                  firstFail, dumped, cursors >>

\* AfterCreate without the test of skipData.
AfterCreateNoSkip(err) ==
  /\ pc' = "WriteTableHeader"
  /\ wtRet' = wtRet

\* Where WriteTable goes once WriteCreateTable has returned err.
AfterCreate(err) ==
  IF skipData THEN Return(nil)
  ELSE /\ pc' = "WriteTableHeader"
       /\ wtRet' = wtRet

\* WriteTable calls WriteCreateTable: the comment, the DROP, the SHOW CREATE
\* TABLE query and, when its row decodes, the DDL.
WriteCreateTable ==
  /\ pc = "WriteCreateTable"
  /\ \E err \in {nil, ErrShowCreate} :
       /\ sink' = sink \o << StructureComment(table), DropTable(table) >>
                       \o (IF err = nil THEN << Ddl(table) >> ELSE <<>>)
       /\ createErr' = err
       /\ NoteFail(err)
       /\ AfterCreate(err)
  /\ dbLog' = Append(dbLog, ShowCreateTable(table))
  /\ UNCHANGED << config, rendering, listing, idx, table, wtStart, wtDbStart,
                  skipData, cnt, hdrErr, dataErr, dataEnd, stream, nread, data, wtsRet,
                  dumped, cursors, adminFailed >>

\* AfterHeader without the test of err.
AfterHeaderUnchecked(written, count, err) ==
  IF HasRows(count)
    THEN /\ sink' = Append(written, LockWrite(table))
         /\ pc' = "WriteTableData"
         /\ wtRet' = wtRet
    ELSE /\ Return(nil)
         /\ sink' = written

\* Where WriteTable goes once WriteTableHeader has returned (count, err), and
\* what it writes on the way.
AfterHeader(written, count, err) ==
  IF err # nil THEN /\ Return(err)
                    /\ sink' = written
  ELSE IF HasRows(count)
    THEN /\ sink' = Append(written, LockWrite(table))
         /\ pc' = "WriteTableData"
         /\ wtRet' = wtRet
    ELSE /\ Return(nil)
         /\ sink' = written

\* WriteTable calls WriteTableHeader (the data comment, the row count query,
\* the count), returns its error, and writes the WRITE lock marker when the
\* count is positive.
WriteTableHeader ==
  /\ pc = "WriteTableHeader"
  /\ \E err \in {nil, ErrCount}, n \in 0..MaxCount :
       /\ err # nil => n = 0
       /\ cnt' = n
       /\ hdrErr' = err
       /\ NoteFail(err)
       /\ AfterHeader(Append(sink, DataHeader(table))
                        \o (IF err = nil THEN << RowCount(n) >> ELSE <<>>), n, err)
  /\ dbLog' = Append(dbLog, RowCountQuery(table))
  /\ UNCHANGED << config, rendering, listing, idx, table, wtStart, wtDbStart,
                  skipData, createErr, dataErr, dataEnd, stream, nread, data, wtsRet,
                  dumped, cursors, adminFailed >>

\* The statements selectAllDataFor sends before it fails with err (or succeeds):
\* the column probe, then the SELECT.
SelectStatements(t, err) ==
  << ProbeQuery(t) >>
    \o (IF err \in {ErrProbe, ErrProbeColumns} THEN <<>>
        ELSE << GetSelectQueryForTable(t, GetColumnsForSelect(t, DbColumns(t))) >>)

\* The cursor of a table's data SELECT.
DataCursor(t) == [q |-> "SELECT", t |-> t]

\* The open cursors when selectAllDataFor returns err: the probe's cursor is
\* closed by GetColumnsForSelect (defer); the SELECT's cursor is open once
\* d.DB.Query has succeeded, and no path of selectAllDataFor closes it.
CursorsAfterSelect(t, err) ==
  IF err \in {nil, ErrColumns} THEN cursors \cup {DataCursor(t)} ELSE cursors

\* The open cursors when WriteTableData returns after its defer rows.Close().
CursorsAfterClose(t) == cursors \ {DataCursor(t)}

\* WriteTableData returns err to WriteTable, which drops it.
DataReturn(err, written) ==
  /\ dataErr' = err
  /\ dataEnd' = Len(written)
  /\ NoteFail(err)
  /\ pc' = "WriteTableEnd"

\* WriteTableData's head: selectAllDataFor builds the SELECT (column probe),
\* runs it and asks for its columns; any failure is returned.
SelectAllData ==
  /\ pc = "WriteTableData"
  /\ \E err \in {nil, ErrProbe, ErrProbeColumns, ErrSelect, ErrColumns}, rows \in 0..MaxRows :
       /\ err # nil => rows = 0
       /\ dbLog' = dbLog \o SelectStatements(table, err)
       /\ stream' = rows
       /\ cursors' = CursorsAfterSelect(table, err)
       /\ IF err # nil
            THEN DataReturn(err, sink)
            ELSE /\ pc' = "Rows"
                 /\ UNCHANGED << dataErr, dataEnd, firstFail >>
  /\ nread' = 0
  /\ data' = <<>>
  /\ UNCHANGED << config, rendering, sink, listing, idx, table, wtStart, wtDbStart,
                  skipData, createErr, cnt, hdrErr, wtRet, wtsRet, dumped, adminFailed >>

\* ResetAccumulator leaving the flushed tuples in the accumulator.
KeepAccumulator(acc) == acc

\* The accumulator after a flush: data = make([]string, 0).
ResetAccumulator(acc) == <<>>

\* One turn of WriteTableData's loop: rows.Next() has a row; its Scan fails
\* and the error is returned, or its tuple is appended to the accumulator,
\* which is flushed as one INSERT when it has ExtendedInsertRows tuples.
ScanRow ==
  /\ pc = "Rows"
  /\ nread < stream
  /\ \E err \in {nil, ErrRowScan} :
       IF err # nil
         THEN /\ DataReturn(err, sink)
              /\ cursors' = CursorsAfterClose(table)
              /\ UNCHANGED << sink, nread, data >>
         ELSE LET acc == Append(data, RenderTuple(DbRow(table, nread + 1)))
              IN /\ nread' = nread + 1
                 /\ IF FlushNow(acc)
                      THEN /\ sink' = Append(sink, Insert(table, acc))
                           /\ data' = ResetAccumulator(acc)
                      ELSE /\ sink' = sink
                           /\ data' = acc
                 /\ UNCHANGED << pc, dataErr, dataEnd, firstFail, cursors >>
  /\ UNCHANGED << config, rendering, dbLog, listing, idx, table, wtStart, wtDbStart,
                  skipData, createErr, cnt, hdrErr, stream, wtRet, wtsRet, dumped,
                  adminFailed >>

\* rows.Next() is false: what is left in the accumulator is flushed and
\* WriteTableData returns nil.
EndOfRows ==
  /\ pc = "Rows"
  /\ nread = stream
  /\ sink' = IF FlushAtEnd(data) THEN Append(sink, Insert(table, data)) ELSE sink
  /\ DataReturn(nil, sink')
  /\ cursors' = CursorsAfterClose(table)
  /\ UNCHANGED << config, rendering, dbLog, listing, idx, table, wtStart, wtDbStart,
                  skipData, createErr, cnt, hdrErr, stream, nread, data, wtRet, wtsRet,
                  dumped, adminFailed >>

\* EndFragments with the two writes exchanged.
EndFragmentsSwapped == << UnlockMarker, BlankLine >>

\* What WriteTable writes after WriteTableData: the blank line, then the
\* UNLOCK marker.
EndFragments == << BlankLine, UnlockMarker >>

\* WriteTable after WriteTableData: the blank line, the UNLOCK marker, the
\* UNLOCK TABLES statement under UseTableLock (its result dropped), and
\* return nil.
WriteTableEnd ==
  /\ pc = "WriteTableEnd"
  /\ sink' = sink \o EndFragments
  /\ IF UseTableLock
       THEN \E unlockErr \in AdminResults(ErrUnlock) :
              /\ dbLog' = Append(dbLog, UnlockTables)
              /\ adminFailed' = adminFailed \cup ({unlockErr} \ {nil})
       ELSE UNCHANGED << dbLog, adminFailed >>
  /\ Return(nil)
  /\ UNCHANGED << config, rendering, listing, idx, table, wtStart, wtDbStart,
                  frame, wtsRet, firstFail, dumped, cursors >>

Next ==
  \/ GetTables
  \/ WriteTablesStart
  \/ WriteTablesLoop
  \/ WriteTablesErr
  \/ WriteTablePolicy
  \/ WriteCreateTable
  \/ WriteTableHeader
  \/ SelectAllData
  \/ ScanRow
  \/ EndOfRows
  \/ WriteTableEnd

Spec == Init /\ [][Next]_vars

\* --------------------------- a database that fails administrative statements
\* WriteTables is about to be called with UseTableLock set, on a database on
\* which LOCK TABLES, FLUSH TABLES and UNLOCK TABLES may each fail.
InitAdmin ==
  /\ FilterMap \in FilterMaps
  /\ UseTableLock = TRUE
  /\ ExtendedInsertRows \in {0, MaxBatch}
  /\ WhereMap = <<>>
  /\ SelectMap = <<>>
  /\ faults = TRUE
  /\ pc = "WriteTables"
  /\ cell = NullCell
  /\ literal = <<>>
  /\ Idle

SpecAdmin == InitAdmin /\ [][Next]_vars

\* ------------------------------------------------ rendering one value
\* The bytes the cells are made of: NUL, LF, CR, 0x1A, the single quote, the
\* backslash, and the plain bytes 0, n and a.
CellAlphabet == {0, 10, 13, 26, 39, 92, 48, 110, 97}

\* The cells Scan can leave in values[i]: nil, or a byte string.
Cells ==
  {NullCell} \cup { Bytes(b) : b \in UNION { [1..n -> CellAlphabet] : n \in 0..MaxCell } }

\* WriteTableData is about to render one scanned cell.
InitEscape ==
  /\ FilterMap = <<>>
  /\ UseTableLock = FALSE
  /\ ExtendedInsertRows = 0
  /\ WhereMap = <<>>
  /\ SelectMap = <<>>
  /\ faults = FALSE
  /\ pc = "RenderValue"
  /\ cell \in Cells
  /\ literal = <<>>
  /\ Idle

\* The body of WriteTableData's loop over values: val for one cell.
RenderCell ==
  /\ pc = "RenderValue"
  /\ literal' = RenderValue(cell)
  /\ pc' = "rendered"
  /\ UNCHANGED << config, cell, sink, dbLog, listing, idx, table, wtStart, wtDbStart,
                  frame, wtRet, wtsRet, firstFail, dumped, cursors, adminFailed >>

NextEscape == RenderCell

SpecEscape == InitEscape /\ [][NextEscape]_vars

\* ------------------------------------------------------------- claims
\* The policy the configuration gives table t ("": none).
PolicyOf(t) == IF ToLower(t) \in DOMAIN FilterMap THEN FilterMap[ToLower(t)] ELSE ""

\* WriteTable has returned to WriteTables, which has not looked at the result yet.
Returned == pc = "WriteTablesErr"

\* What the current call of WriteTable has written and sent so far.
TableOut == SubSeq(sink, wtStart + 1, Len(sink))
TableStatements == SubSeq(dbLog, wtDbStart + 1, Len(dbLog))

IsInsert(f) == f.k = "Insert"
Inserts == SelectSeq(TableOut, IsInsert)

DataKinds == {"DataHeader", "RowCount", "LockWrite", "Insert", "Blank", "Unlock"}
Kinds(frags) == { frags[i].k : i \in DOMAIN frags }
Ops(stmts) == { stmts[i].op : i \in DOMAIN stmts }

\* The structure section as WriteCreateTable leaves it: the comment, the DROP
\* and, when the DDL was fetched, the DDL.
StructureSection ==
  << StructureComment(table), DropTable(table) >>
    \o (IF createErr = nil THEN << Ddl(table) >> ELSE <<>>)

\* C1: WriteTable of a table whose policy is ignore writes nothing to the sink
\* and returns nil, whatever the rest of the configuration.
C1_IgnoreWritesNothing ==
  (Returned /\ PolicyOf(table) = OperationIgnore) =>
    /\ Len(sink) = wtStart
    /\ wtRet = nil

C1_Witness ==
  /\ Returned
  /\ PolicyOf(table) = OperationIgnore
  /\ table = "Tb"
  /\ UseTableLock
  /\ wtStart > 0

\* C2: WriteTable of a table whose policy is nodata never writes a data header,
\* a row count, a WRITE lock marker, an INSERT, a blank line or an UNLOCK
\* marker, and what it has written when it returns is the structure section:
\* the comment, the DROP and the DDL the database handed over.
C2_NoDataWritesStructureOnly ==
  (PolicyOf(table) = OperationNoData /\ pc \notin {"Loop", "done"}) =>
    /\ Kinds(TableOut) \cap DataKinds = {}
    /\ Returned => TableOut = StructureSection /\ wtRet = nil

C2_Witness ==
  /\ Returned
  /\ PolicyOf(table) = OperationNoData
  /\ table = "Tb"
  /\ UseTableLock
  /\ createErr = nil
  /\ TableOut = << StructureComment("Tb"), DropTable("Tb"), Ddl("Tb") >>

\* C3: when the structure step of WriteTable has failed, WriteTable returns
\* that error, the table's output is only what WriteCreateTable wrote before
\* the failure, and no statement was sent after SHOW CREATE TABLE.
C3_StructureFailureAborts ==
  (Returned /\ createErr # nil) =>
    /\ wtRet = createErr
    /\ TableOut = << StructureComment(table), DropTable(table) >>
    /\ Ops(TableStatements) \subseteq {"LOCK TABLES READ", "FLUSH TABLES", "SHOW CREATE TABLE"}

\* C4: when WriteTableData has failed, WriteTable returns that error and has
\* written nothing after the failure.
C4_DataFailureAborts ==
  (Returned /\ dataErr # nil) =>
    /\ wtRet = dataErr
    /\ Len(sink) = dataEnd

\* C5: after the first failure of a table's dump WriteTables goes to no later
\* table, and it returns that failure's error.
C5_FirstFailureAborts ==
  firstFail.idx # 0 =>
    /\ idx = firstFail.idx
    /\ pc = "done" => wtsRet = firstFail.err

\* C6: when SHOW FULL TABLES fails with E, nothing is written, no other
\* statement is sent and WriteTables returns E.
C6_EnumerationFailure ==
  listErr # nil =>
    /\ sink = <<>>
    /\ dbLog = << ShowFullTables >>
    /\ pc \in {"GetTablesErr", "done"}
    /\ pc = "done" => wtsRet = listErr

C6_Witness ==
  /\ listErr = ErrShowFullTables
  /\ pc = "done"
  /\ wtsRet = ErrShowFullTables

\* C7: whenever GetTables returns an error, the list it returns is empty.
C7_ErrorMeansEmptyList ==
  getErr # nil => tables = <<>>

\* C8: with ExtendedInsertRows = N > 0, when the R rows of the stream were all
\* read, ceil(R / N) INSERT statements were written, all but the last with N
\* tuples and the last with 1 to N.
C8_BatchesOfN ==
  (pc = "WriteTableEnd" /\ dataErr = nil /\ ExtendedInsertRows > 0) =>
    /\ Len(Inserts) = (stream + ExtendedInsertRows - 1) \div ExtendedInsertRows
    /\ \A i \in 1..Len(Inserts) :
         /\ i < Len(Inserts) => Len(Inserts[i].tuples) = ExtendedInsertRows
         /\ Len(Inserts[i].tuples) \in 1..ExtendedInsertRows

C8_Witness ==
  /\ pc = "WriteTableEnd"
  /\ dataErr = nil
  /\ ExtendedInsertRows = 2
  /\ stream = 3
  /\ Len(Inserts) = 2
  /\ Len(Inserts[2].tuples) = 1

\* C9: with ExtendedInsertRows = 0 no INSERT is written while rows are read,
\* and when the R > 0 rows were all read exactly one INSERT with R tuples was
\* written; when no row was read no INSERT is written at all.
C9_UnboundedBatch ==
  /\ (pc = "Rows" /\ ExtendedInsertRows = 0) =>
       Inserts = <<>> /\ Len(data) = nread
  /\ (pc = "WriteTableEnd" /\ dataErr = nil /\ ExtendedInsertRows = 0 /\ stream > 0) =>
       Len(Inserts) = 1 /\ Len(Inserts[1].tuples) = stream
  /\ (pc = "WriteTableEnd" /\ nread = 0) => Inserts = <<>>

C9_Witness ==
  /\ pc = "WriteTableEnd"
  /\ dataErr = nil
  /\ ExtendedInsertRows = 0
  /\ stream = MaxRows
  /\ Len(Inserts) = 1

\* C10: WriteTable of a table without policy whose row count is zero returns
\* nil after the structure section and the data header with the count: no
\* WRITE lock marker, INSERT, blank line or UNLOCK marker, and no SELECT sent.
C10_ZeroRowsStopsAfterHeader ==
  (Returned /\ PolicyOf(table) = "" /\ hdrErr = nil /\ cnt = 0) =>
    /\ TableOut = StructureSection \o << DataHeader(table), RowCount(0) >>
    /\ Ops(TableStatements) \cap {"SELECT", "SELECT * LIMIT 1"} = {}
    /\ TableStatements[Len(TableStatements)] = RowCountQuery(table)
    /\ wtRet = nil

C10_Witness ==
  /\ Returned
  /\ PolicyOf(table) = ""
  /\ hdrErr = nil
  /\ cnt = 0
  /\ createErr = nil
  /\ UseTableLock
  /\ Ddl(table) \in { TableOut[i] : i \in DOMAIN TableOut }

\* The fragment at position p of the sink, or an end marker past its end.
At(p) == IF p \in DOMAIN sink THEN sink[p] ELSE [k |-> "end"]

\* The first position from p on that holds no INSERT of table t.
RECURSIVE PastInserts(_, _)
PastInserts(t, p) ==
  IF At(p).k = "Insert" /\ At(p).t = t THEN PastInserts(t, p + 1) ELSE p

\* Where table t's rows part ends when it starts at p: the WRITE lock marker,
\* the INSERTs, the blank line and the UNLOCK marker (0: the sink differs).
RowsPartEnd(t, p) ==
  IF At(p) # LockWrite(t) THEN 0
  ELSE LET q == PastInserts(t, p + 1)
       IN IF At(q) = BlankLine /\ At(q + 1) = UnlockMarker THEN q + 2 ELSE 0

\* Where table t's output ends when it starts at p (0: the sink differs from
\* the order).  With countAlone, a table that is not nodata always has the
\* data comment and its count, and the rows part only under a positive count;
\* without it, the data comment is there only together with a positive count
\* and the rows part.
TableEnd(t, p, countAlone) ==
  IF PolicyOf(t) = OperationIgnore THEN p
  ELSE IF ~ /\ At(p) = StructureComment(t)
            /\ At(p + 1) = DropTable(t)
            /\ At(p + 2) = Ddl(t) THEN 0
  ELSE IF PolicyOf(t) = OperationNoData THEN p + 3
  ELSE IF At(p + 3) = DataHeader(t)
    THEN IF At(p + 4).k # "RowCount" THEN 0
         ELSE IF At(p + 4).n = 0 THEN (IF countAlone THEN p + 5 ELSE 0)
         ELSE RowsPartEnd(t, p + 5)
    ELSE IF countAlone THEN 0 ELSE p + 3

\* Where the output of tables[i], tables[i+1], ... ends when it starts at p.
RECURSIVE DumpEnd(_, _, _)
DumpEnd(i, p, countAlone) ==
  IF p = 0 THEN 0
  ELSE IF i > Len(tables) THEN p
  ELSE DumpEnd(i + 1, TableEnd(tables[i], p, countAlone), countAlone)

\* WriteTables has returned nil and every step of every table completed.
Succeeded == pc = "done" /\ wtsRet = nil /\ firstFail.idx = 0

\* C11 (as stated): after a successful dump the sink is, table by table in the
\* listed order, the structure section and, only for a table that is not
\* nodata and has rows, the data comment with the count, the WRITE lock marker,
\* the INSERTs, the blank line and the UNLOCK marker.
C11_DataSectionOnlyWithRows == Succeeded => DumpEnd(1, 1, FALSE) = Len(sink) + 1

\* C11 (amended): after a successful dump the sink is, table by table in the
\* listed order, the structure section (comment, DROP, DDL), then for every
\* table that is not nodata the data comment with the count, and only under a
\* positive count the WRITE lock marker, the INSERTs, the blank line and the
\* UNLOCK marker; nothing else is in the sink.
C11_SinkOrder == Succeeded => DumpEnd(1, 1, TRUE) = Len(sink) + 1

\* Two tables were dumped with success, the first one with INSERTs and the
\* second one with a count of zero.
C11_Witness ==
  /\ Succeeded
  /\ Len(tables) = 2
  /\ \E p \in DOMAIN sink : sink[p].k = "Insert" /\ sink[p].t = tables[1]
  /\ sink[Len(sink)] = RowCount(0)
  /\ sink[Len(sink) - 1] = DataHeader(tables[2])

IsBaseTable(row) == row.type = "BASE TABLE"

\* The names the enumeration reported with the type BASE TABLE, in its order.
ReportedBaseTables ==
  LET base == SelectSeq(enumerated, IsBaseTable)
  IN [i \in DOMAIN base |-> base[i].name]

\* C12: the tables WriteTables hands to WriteTable, in the order of the calls,
\* are at every moment the first ones of the enumeration's BASE TABLE rows in
\* the enumeration's order (so never a view, none twice, none out of order, and
\* the table being dumped is the last one handed over); when WriteTables
\* returns nil they are all of them.  A table whose policy is ignore is handed
\* to WriteTable like any other, which writes nothing for it.
C12_DumpsBaseTablesInOrder ==
  /\ Len(dumped) <= Len(ReportedBaseTables)
  /\ dumped = SubSeq(ReportedBaseTables, 1, Len(dumped))
  /\ dumped # <<>> => table = dumped[Len(dumped)]
  /\ (pc = "done" /\ wtsRet = nil) => dumped = ReportedBaseTables

\* The enumeration listed a view and then a base table, and WriteTables
\* returned nil after dumping the base table alone.
C12_Witness ==
  /\ pc = "done"
  /\ wtsRet = nil
  /\ Len(enumerated) = 2
  /\ ~IsBaseTable(enumerated[1])
  /\ Len(dumped) = 1
  /\ dumped = ReportedBaseTables

\* The row filter the configuration gives table t: its WhereMap expression,
\* looked up by the lower-cased name, or none.
RowFilterOf(t) ==
  IF ToLower(t) \in DOMAIN WhereMap THEN << WhereMap[ToLower(t)] >> ELSE <<>>

IsRowQuery(stmt) == stmt.op \in {"SELECT", "SELECT COUNT(*)"}

\* C13: every row-count query and every data SELECT sent for a table ends with
\* WHERE and the table's WhereMap expression, verbatim, when WhereMap has an
\* entry for the table, and has no WHERE clause when it has none; so the two
\* queries of a table carry the same row filter.
C13_QueriesAgreeOnWhere ==
  \A i \in DOMAIN dbLog :
    IsRowQuery(dbLog[i]) => dbLog[i].where = RowFilterOf(dbLog[i].t)

\* The count query and the SELECT were both sent for Tb, whose filter is
\* stored under the key tb.
C13_Witness ==
  /\ "tb" \in DOMAIN WhereMap
  /\ \E i, j \in DOMAIN dbLog :
       /\ dbLog[i].op = "SELECT COUNT(*)" /\ dbLog[i].t = "Tb"
       /\ dbLog[j].op = "SELECT" /\ dbLog[j].t = "Tb"
       /\ dbLog[i].where = << WhereMap["tb"] >>
       /\ dbLog[j].where = dbLog[i].where

\* Whether the configuration substitutes column c of table t, both looked up
\* by their lower-cased names.
HasSubstitution(t, c) ==
  /\ ToLower(t) \in DOMAIN SelectMap
  /\ ToLower(c) \in DOMAIN SelectMap[ToLower(t)]

\* The entry the column list must have for column c of table t.
EntryOf(t, c) ==
  IF HasSubstitution(t, c)
    THEN [expr |-> SelectMap[ToLower(t)][ToLower(c)], as |-> c]
    ELSE [quoted |-> c]

\* C14: the column list of every data SELECT has one entry per column of the
\* table, in the table's native column order: the substitution "AS" the
\* column's own name when SelectMap has one for the table and column (looked
\* up case-insensitively), and the backtick-quoted column name otherwise.
C14_ColumnListFollowsTable ==
  \A i \in DOMAIN dbLog :
    dbLog[i].op = "SELECT" =>
      LET native == DbColumns(dbLog[i].t)
      IN /\ Len(dbLog[i].cols) = Len(native)
         /\ \A j \in DOMAIN native : dbLog[i].cols[j] = EntryOf(dbLog[i].t, native[j])

\* A SELECT was sent for ta with its first column quoted and its second
\* column, Name, replaced by the substitution stored under the key name.
C14_Witness ==
  \E i \in DOMAIN dbLog :
    /\ dbLog[i].op = "SELECT"
    /\ dbLog[i].t = "ta"
    /\ "ta" \in DOMAIN SelectMap
    /\ dbLog[i].cols = << [quoted |-> "id"], [expr |-> SelectMap["ta"]["name"], as |-> "Name"] >>

\* The byte a backslash followed by b stands for in a string literal of MySQL.
Unescaped(b) ==
  CASE b = 48 -> 0
    [] b = 110 -> 10
    [] b = 114 -> 13
    [] b = 90 -> 26
    [] b = 98 -> 8
    [] b = 116 -> 9
    [] OTHER -> b

\* The bytes the body of a string literal stands for; a backslash with nothing
\* after it stands for no byte at all (-1).
RECURSIVE Unescape(_)
Unescape(s) ==
  IF s = <<>> THEN <<>>
  ELSE IF s[1] # 92 THEN << s[1] >> \o Unescape(Tail(s))
  ELSE IF Len(s) = 1 THEN << -1 >>
  ELSE << Unescaped(s[2]) >> \o Unescape(SubSeq(s, 3, Len(s)))

\* Whether the body of a literal holds a single quote no backslash escapes, or
\* ends in a backslash that would escape the closing quote.
RECURSIVE HasBareQuote(_)
HasBareQuote(s) ==
  IF s = <<>> THEN FALSE
  ELSE IF s[1] = 39 THEN TRUE
  ELSE IF s[1] # 92 THEN HasBareQuote(Tail(s))
  ELSE IF Len(s) = 1 THEN TRUE
  ELSE HasBareQuote(SubSeq(s, 3, Len(s)))

LiteralBody == SubSeq(literal, 2, Len(literal) - 1)

\* C15: the value rendered for a non-null cell is a single-quoted literal with
\* no unescaped single quote inside, and unescaping its body under MySQL's
\* string-literal rules gives back the cell's bytes.
C15_EscapeRoundTrip ==
  (pc = "rendered" /\ ~cell.null) =>
    /\ Len(literal) >= 2
    /\ literal[1] = 39
    /\ literal[Len(literal)] = 39
    /\ ~HasBareQuote(LiteralBody)
    /\ Unescape(LiteralBody) = cell.bytes

\* A cell holding a backslash, a single quote and a newline was rendered.
C15_Witness ==
  /\ pc = "rendered"
  /\ cell = Bytes(<<92, 39, 10>>)
  /\ literal = <<39, 92, 92, 92, 39, 92, 110, 39>>

\* C16: no cursor opened during the dump is still open when WriteTable has
\* returned or when WriteTables has returned, on success and on every failure.
C16_CursorsClosedOnReturn == (Returned \/ pc = "done") => cursors = {}

\* C17: when WriteTable has returned, every LOCK TABLES ... READ it sent for
\* the table is followed by an UNLOCK TABLES it sent, on every path.
C17_LockReleasedOnReturn ==
  Returned =>
    \A i \in DOMAIN TableStatements :
      TableStatements[i] = LockTableReading(table) =>
        \E j \in DOMAIN TableStatements : j > i /\ TableStatements[j] = UnlockTables

\* The table being dumped has data to dump: it is not nodata, its row count
\* was obtained and is positive.
WithRows == PolicyOf(table) # OperationNoData /\ hdrErr = nil /\ cnt > 0

\* The kinds of the statements WriteTable sends, in order, given the outcomes
\* of the structure, count and data steps alone.
StatementOps ==
  IF PolicyOf(table) = OperationIgnore THEN <<>>
  ELSE (IF PolicyOf(table) # OperationNoData /\ UseTableLock
          THEN << "LOCK TABLES READ", "FLUSH TABLES" >> ELSE <<>>)
       \o << "SHOW CREATE TABLE" >>
       \o (IF PolicyOf(table) = OperationNoData THEN <<>> ELSE << "SELECT COUNT(*)" >>)
       \o (IF ~WithRows THEN <<>>
           ELSE << "SELECT * LIMIT 1" >>
                \o (IF dataErr \in {ErrProbe, ErrProbeColumns} THEN <<>> ELSE << "SELECT" >>)
                \o (IF UseTableLock THEN << "UNLOCK TABLES" >> ELSE <<>>))

\* What WriteTable writes, given the outcomes of the structure, count and data
\* steps alone.
TableFragments ==
  IF PolicyOf(table) = OperationIgnore THEN <<>>
  ELSE StructureSection
       \o (IF PolicyOf(table) = OperationNoData THEN <<>>
           ELSE << DataHeader(table) >>
                \o (IF hdrErr = nil THEN << RowCount(cnt) >> ELSE <<>>)
                \o (IF ~WithRows THEN <<>>
                    ELSE << LockWrite(table) >> \o Inserts \o << BlankLine, UnlockMarker >>))

\* C18: on a database that may fail LOCK TABLES, FLUSH TABLES and UNLOCK
\* TABLES in any combination, what WriteTable has sent, written and returned
\* when it returns is fixed by the outcomes of its other steps: each
\* administrative statement is sent at its one place and never again, the
\* later statements and the sink are those of a run without such failures,
\* and the result is the row count's error or nil, never an administrative
\* statement's error.
C18_AdminFailuresNotSurfaced ==
  Returned =>
    /\ [i \in DOMAIN TableStatements |-> TableStatements[i].op] = StatementOps
    /\ TableOut = TableFragments
    /\ wtRet = hdrErr

\* LOCK TABLES, FLUSH TABLES and UNLOCK TABLES all failed for a table, whose
\* rows were written and for which WriteTable returned nil.
C18_Witness ==
  /\ Returned
  /\ adminFailed = {ErrLock, ErrFlush, ErrUnlock}
  /\ Inserts # <<>>
  /\ firstFail.idx = 0
  /\ wtRet = nil

\* C19: when the row count of a table failed, WriteTable has returned that
\* error with a count of 0; the sink holds the table's structure section and
\* the data comment and nothing after them (no count, no WRITE lock marker, no
\* INSERT, no UNLOCK marker), and nothing was sent after the row-count query
\* (no column probe, no data SELECT).
C19_RowCountFailureStopsTable ==
  (Returned /\ hdrErr # nil) =>
    /\ PolicyOf(table) \notin {OperationIgnore, OperationNoData}
    /\ cnt = 0
    /\ wtRet = hdrErr
    /\ TableOut = StructureSection \o << DataHeader(table) >>
    /\ TableStatements # <<>>
    /\ TableStatements[Len(TableStatements)].op = "SELECT COUNT(*)"
    /\ Ops(TableStatements) \cap {"SELECT", "SELECT * LIMIT 1"} = {}

\* The row count failed for a table whose structure was written in full, under
\* UseTableLock, and WriteTable returned the error.
C19_Witness ==
  /\ Returned
  /\ hdrErr = ErrCount
  /\ createErr = nil
  /\ UseTableLock
  /\ wtRet = ErrCount
  /\ TableOut = << StructureComment(table), DropTable(table), Ddl(table), DataHeader(table) >>

\* The tuples of a sequence of INSERTs, concatenated in the INSERTs' order.
RECURSIVE TuplesOf(_)
TuplesOf(inserts) ==
  IF inserts = <<>> THEN <<>> ELSE Head(inserts).tuples \o TuplesOf(Tail(inserts))

\* The tuples of the first n rows of the table's cursor, in cursor order.
RowsRead(n) == [i \in 1..n |-> RenderTuple(DbRow(table, i))]

\* C20: in WriteTableData's row loop, and when a row's Scan has failed, the
\* tuples of the INSERTs written so far followed by the accumulator's tuples
\* are the rows read so far, in cursor order, each once; after a run of
\* WriteTableData without failure the tuples of the INSERTs are the whole row
\* stream; and every tuple has one value per column of the table.
C20_NoRowLostOrRepeated ==
  /\ (pc = "Rows" \/ (pc = "WriteTableEnd" /\ dataErr = ErrRowScan)) =>
       TuplesOf(Inserts) \o data = RowsRead(nread)
  /\ (pc \in {"WriteTableEnd", "WriteTablesErr"} /\ dataErr = nil) =>
       TuplesOf(Inserts) = RowsRead(stream)
  /\ \A i \in DOMAIN TuplesOf(Inserts) :
       Len(TuplesOf(Inserts)[i]) = Len(DbColumns(table))
  /\ \A i \in DOMAIN data : Len(data[i]) = Len(DbColumns(table))

\* In the loop with batches of two: three rows of a two-column table were
\* read, two are in an INSERT and the third is in the accumulator.
C20_Witness ==
  /\ pc = "Rows"
  /\ ExtendedInsertRows = 2
  /\ table = "ta"
  /\ nread = 3
  /\ Len(Inserts) = 1
  /\ Len(data) = 1

====
